---- MODULE Spec2Model ----
(***************************************************************************)
(* A model of two subsystems of cherry:                                    *)
(*   - the session agent (src/code/code.go, package cherryAgent): the      *)
(*     reader and writer goroutines of one connection, Send, SendRaw and   *)
(*     Close, and the three channels chDie, chSend, chWrite;               *)
(*   - the NATS master/client discovery (src/unnamed/part_001).            *)
(* Each goroutine is a process with a program counter.  A step is one      *)
(* channel operation, or a run of statements that touches shared state     *)
(* no other goroutine writes.                                              *)
(***************************************************************************)
EXTENDS Integers, Sequences, FiniteSets, TLC

(***************************************************************************)
(* Bounds of the model.                                                    *)
(***************************************************************************)
\* capacity given to chSend and chWrite in the model (the source uses 64)
MaxBacklog == 2
\* Options.Heartbeat, in seconds (any value >= 1 is kept by NewAgent)
HeartbeatSec == 1
\* number of register requests, over all clients, that fail and are retried
MaxRetries == 1

\* code.go:45; the channels are made with this capacity and Send compares
\* len(chSend) against it
WriteBacklog == MaxBacklog

\* code.go:89-91: a heartbeat below one second is replaced by 60 seconds
DefaultHeartbeat == 60
Heartbeat == IF HeartbeatSec < 1 THEN DefaultHeartbeat ELSE HeartbeatSec

\* the clock: unix seconds.  The agent starts at StartTime; lastAt is the
\* zero value of int64 until the first packet is processed.
StartTime == Heartbeat + 1
MaxTime == StartTime + 2 * Heartbeat

\* Send accepts at most this many messages over a run: enough to fill
\* chSend and to call Send once more
MaxSends == WriteBacklog + 1

Writer == "w"
Reader == "r"
Outsider == "k"
Senders == {"s1", "s2"}
\* goroutines that call SendRaw, once each
RawCallers == {"x"}
\* the goroutine that calls Kick
Kicker == "q"
Closers == {Writer, Reader, Outsider}
Procs == Closers \cup Senders \cup RawCallers \cup {Kicker}

\* the cluster: the node whose id is master_node_id, and the other nodes
Master == "m"
Clients == {"g1", "g2"}
Nodes == {Master} \cup Clients
None == "none"

\* entries of chWrite and of the connection's write log: a positive number
\* is the encoded Data packet of the message with that id, RawBytes any
\* other packet
RawBytes == 0

VARIABLES
    state,          \* Session.State(): "Init" or "Closed"
    mu,             \* holder of the agent's mutex, or "none"
    chSend,         \* buffered channel of pending messages (ids)
    chWrite,        \* buffered channel of byte slices
    chSendClosed,   \* close(a.chSend) has run
    chWriteClosed,  \* close(a.chWrite) has run
    lastAt,         \* a.lastAt
    now,            \* time.Now().Unix()
    tick,           \* a value is waiting in ticker.C
    nextTick,       \* when the ticker fires next; 0 once it is stopped
    pc,             \* position of each goroutine
    pend,           \* the packet p the writer is about to send into chWrite
    connLog,        \* byte slices written to conn, in order
    connCloses,     \* number of conn.Close() calls
    onCloseRuns,    \* number of Session.OnCloseProcess() calls
    dieSent,        \* number of values passed through chDie
    encSkipped,     \* messages dropped by the writer on an encode error
    nextId,         \* id the next accepted message gets
    sendWarn,       \* warnings logged: "closed", "exceed" by Send, "decode"
    exitBy,         \* why the writer left its loop
    panicked,       \* goroutines that sent on a closed channel
    \* ---- discovery ----
    memberList,     \* each node's registry (DiscoveryDefault.memberList)
    dpc,            \* position of each node
    attempts,       \* number of register requests each client has made
    regInbox,       \* requests waiting at the master's register subscription
    replyBox,       \* the reply waiting in each client's request inbox
    addInbox,       \* messages waiting at each client's addMember subscription
    unregInbox,     \* messages waiting at each node's unregister subscription
    mpend,          \* the member the master's register handler has yet to publish
    hpend,          \* the member each client's addMember handler is about to add
    ingest,         \* the members of the reply each client has yet to add
    retries,        \* number of failed register attempts so far
    bcastLost,      \* a Publish on addMember has failed
    keptSelf,       \* nodes that have received an unregister of their own id
    heardStop       \* per client, the nodes its Stop's unregister reached

chans == <<chSend, chWrite, chSendClosed, chWriteClosed>>
clock == <<now, tick, nextTick>>
closeVars == <<state, mu, connCloses, onCloseRuns, dieSent>>
sendVars == <<nextId, sendWarn, panicked>>
writeVars == <<pend, connLog, encSkipped>>

agentVars == <<chans, clock, closeVars, sendVars, writeVars, lastAt, pc, exitBy>>

discVars == <<memberList, dpc, attempts, regInbox, replyBox, addInbox,
              unregInbox, mpend, hpend, ingest, retries, bcastLost, keptSelf,
              heardStop>>

vars == <<agentVars, discVars>>

Range(s) == {s[i] : i \in 1..Len(s)}

----
(***************************************************************************)
(* NewAgent and Run: the state right after `go a.read(); go a.write()`.    *)
(* The writer has made its ticker and is at the select; the reader is at   *)
(* GetNextMessage; the other goroutines have not called yet.               *)
(***************************************************************************)
AgentInit ==
    /\ state = "Init"
    /\ mu = "none"
    /\ chSend = <<>>
    /\ chWrite = <<>>
    /\ chSendClosed = FALSE
    /\ chWriteClosed = FALSE
    /\ lastAt = 0
    /\ now = StartTime
    /\ tick = FALSE
    /\ nextTick = StartTime + Heartbeat
    /\ pc = [p \in Procs |->
               IF p = Writer THEN "select"
               ELSE IF p = Reader THEN "read"
               ELSE IF p = Outsider THEN "close_lock" ELSE "idle"]
    /\ pend = 0
    /\ connLog = <<>>
    /\ connCloses = 0
    /\ onCloseRuns = 0
    /\ dieSent = 0
    /\ encSkipped = {}
    /\ nextId = 1
    /\ sendWarn = {}
    /\ exitBy = "none"
    /\ panicked = {}

----
(***************************************************************************)
(* Agent.Close, code.go:151-167.  The caller p is at "close_lock" when it  *)
(* calls Close and continues at AfterClose(p) when Close returns.          *)
(***************************************************************************)
AfterClose(p) ==
    IF p = Writer THEN "close_chSend" ELSE "done"

\* a Close that does not look at the state
AlreadyClosed_Never(st) == FALSE

\* code.go:155
AlreadyClosed(st) == st = "Closed"

\* a.Lock(); the state test; on a session that is not Closed,
\* SetState(Closed) and OnCloseProcess().  On the early return the deferred
\* Unlock runs at once.  Only Close writes the state, and it does so under
\* the lock, so these statements are one step.
CloseEnter(p) ==
    /\ pc[p] = "close_lock"
    /\ mu = "none"
    /\ IF AlreadyClosed(state)
       THEN /\ pc' = [pc EXCEPT ![p] = AfterClose(p)]
            /\ UNCHANGED <<state, mu, onCloseRuns>>
       ELSE /\ mu' = p
            /\ state' = "Closed"
            /\ onCloseRuns' = onCloseRuns + 1
            /\ pc' = [pc EXCEPT ![p] = "close_die"]
    /\ UNCHANGED <<chans, clock, connCloses, dieSent, sendVars, writeVars,
                   lastAt, exitBy>>
    /\ UNCHANGED discVars

\* a chDie with a buffer: the send completes without a receiver
CloseDie_Buffered(p) ==
    /\ pc[p] = "close_die"
    /\ pc' = [pc EXCEPT ![p] = "close_conn"]
    /\ dieSent' = dieSent + 1
    /\ UNCHANGED <<chans, clock, state, mu, connCloses, onCloseRuns, sendVars,
                   writeVars, lastAt, exitBy>>
    /\ UNCHANGED discVars

\* a.chDie <- true meets the writer's `case <-a.chDie: return`.  chDie is
\* unbuffered: the send completes only together with the receive, and the
\* only receive is the writer's select (code.go:231).  The writer's
\* deferred function stops the ticker.
CloseDie(p) ==
    /\ pc[p] = "close_die"
    /\ pc[Writer] = "select"
    /\ pc' = [pc EXCEPT ![p] = "close_conn", ![Writer] = "close_lock"]
    /\ dieSent' = dieSent + 1
    /\ exitBy' = "die"
    /\ tick' = FALSE
    /\ nextTick' = 0
    /\ UNCHANGED <<chans, now, state, mu, connCloses, onCloseRuns, sendVars,
                   writeVars, lastAt>>
    /\ UNCHANGED discVars

\* a.conn.Close(), then the deferred Unlock
CloseConn(p) ==
    /\ pc[p] = "close_conn"
    /\ connCloses' = connCloses + 1
    /\ mu' = "none"
    /\ pc' = [pc EXCEPT ![p] = AfterClose(p)]
    /\ UNCHANGED <<chans, clock, state, onCloseRuns, dieSent, sendVars,
                   writeVars, lastAt, exitBy>>
    /\ UNCHANGED discVars

----
(***************************************************************************)
(* Agent.write, code.go:216-279.  When the loop returns, the deferred      *)
(* function runs: ticker.Stop(), a.Close(), close(chSend), close(chWrite). *)
(* ticker.Stop() is taken with the return: nothing reads ticker.C later.   *)
(***************************************************************************)
\* code.go:235-236: deadline := now - Heartbeat; a.lastAt < deadline
HeartbeatExpired(last, t) == last < t - Heartbeat

\* the head of a channel's buffer is what a receive returns
Recv(q) == Head(q)

\* a buffer that hands out the newest element first
ChanPut_Front(q, v) == <<v>> \o q

\* code.go:276, 181 and 140: a channel send appends to the buffer
ChanPut(q, v) == Append(q, v)

\* case <-ticker.C
WriterTick ==
    /\ pc[Writer] = "select"
    /\ tick
    /\ tick' = FALSE
    /\ IF HeartbeatExpired(lastAt, now)
       THEN /\ pc' = [pc EXCEPT ![Writer] = "close_lock"]
            /\ exitBy' = "timeout"
            /\ nextTick' = 0
       ELSE UNCHANGED <<pc, exitBy, nextTick>>
    /\ UNCHANGED <<chans, now, closeVars, sendVars, writeVars, lastAt>>
    /\ UNCHANGED discVars

\* case bytes := <-a.chWrite: conn.Write(bytes) succeeds or fails
WriterWrite ==
    /\ pc[Writer] = "select"
    /\ chWrite # <<>>
    /\ chWrite' = Tail(chWrite)
    /\ \E ok \in BOOLEAN :
          IF ok
          THEN /\ connLog' = Append(connLog, Recv(chWrite))
               /\ UNCHANGED <<pc, exitBy, tick, nextTick>>
          ELSE /\ pc' = [pc EXCEPT ![Writer] = "close_lock"]
               /\ exitBy' = "writeErr"
               /\ tick' = FALSE
               /\ nextTick' = 0
               /\ UNCHANGED connLog
    /\ UNCHANGED <<chSend, chSendClosed, chWriteClosed, now, closeVars,
                   sendVars, pend, encSkipped, lastAt>>
    /\ UNCHANGED discVars

\* case data := <-a.chSend: Marshal, message Encode, PacketEncode.  A
\* Marshal error ends the writer; an encode error leaves the select
\* (`break`) and the loop goes on; otherwise p is ready for chWrite.
WriterTake ==
    /\ pc[Writer] = "select"
    /\ chSend # <<>>
    /\ chSend' = Tail(chSend)
    /\ \E outcome \in {"ok", "marshalErr", "encodeErr"} :
          CASE outcome = "marshalErr" ->
                 /\ pc' = [pc EXCEPT ![Writer] = "close_lock"]
                 /\ exitBy' = "marshalErr"
                 /\ tick' = FALSE
                 /\ nextTick' = 0
                 /\ UNCHANGED <<pend, encSkipped>>
            [] outcome = "encodeErr" ->
                 /\ encSkipped' = encSkipped \cup {Recv(chSend)}
                 /\ UNCHANGED <<pc, pend, exitBy, tick, nextTick>>
            [] outcome = "ok" ->
                 /\ pend' = Recv(chSend)
                 /\ pc' = [pc EXCEPT ![Writer] = "enq"]
                 /\ UNCHANGED <<encSkipped, exitBy, tick, nextTick>>
    /\ UNCHANGED <<chWrite, chSendClosed, chWriteClosed, now, closeVars,
                   sendVars, connLog, lastAt>>
    /\ UNCHANGED discVars

\* a.chWrite <- p: waits while the buffer holds WriteBacklog slices
WriterEnq ==
    /\ pc[Writer] = "enq"
    /\ Len(chWrite) < WriteBacklog
    /\ chWrite' = ChanPut(chWrite, pend)
    /\ pend' = 0
    /\ pc' = [pc EXCEPT ![Writer] = "select"]
    /\ UNCHANGED <<chSend, chSendClosed, chWriteClosed, clock, closeVars,
                   sendVars, connLog, encSkipped, lastAt, exitBy>>
    /\ UNCHANGED discVars

\* close(a.chSend)
WriterCloseSend ==
    /\ pc[Writer] = "close_chSend"
    /\ chSendClosed' = TRUE
    /\ pc' = [pc EXCEPT ![Writer] = "close_chWrite"]
    /\ UNCHANGED <<chSend, chWrite, chWriteClosed, clock, closeVars,
                   sendVars, writeVars, lastAt, exitBy>>
    /\ UNCHANGED discVars

\* close(a.chWrite)
WriterCloseWrite ==
    /\ pc[Writer] = "close_chWrite"
    /\ chWriteClosed' = TRUE
    /\ pc' = [pc EXCEPT ![Writer] = "done"]
    /\ UNCHANGED <<chSend, chWrite, chSendClosed, clock, closeVars,
                   sendVars, writeVars, lastAt, exitBy>>
    /\ UNCHANGED discVars

----
(***************************************************************************)
(* Agent.read and Agent.processPacket, code.go:189-214 and 281-297.        *)
(***************************************************************************)
\* GetNextMessage returns an error: the reader returns and its deferred
\* function calls Close
ReaderError ==
    /\ pc[Reader] = "read"
    /\ pc' = [pc EXCEPT ![Reader] = "close_lock"]
    /\ UNCHANGED <<chans, clock, closeVars, sendVars, writeVars, lastAt,
                   exitBy>>
    /\ UNCHANGED discVars

\* a frame that does not decode, one that decodes to no packet, or a packet
\* whose type has no command: nothing is done and the loop reads again
ReaderSkip ==
    /\ pc[Reader] = "read"
    /\ connCloses = 0
    /\ UNCHANGED agentVars
    /\ UNCHANGED discVars

\* a packet with a registered command: cmd.Do, then SetLastAt
ReaderPacket ==
    /\ pc[Reader] = "read"
    /\ connCloses = 0
    /\ lastAt' = now
    /\ UNCHANGED <<chans, clock, closeVars, sendVars, writeVars, pc, exitBy>>
    /\ UNCHANGED discVars

\* The reader frame by frame.  GetNextMessage returns a frame
\* (code.go:195): one PacketDecode rejects, one that decodes to no packet,
\* or one that decodes to packets.
ReaderFrame ==
    /\ pc[Reader] = "read"
    /\ connCloses = 0
    /\ \E kind \in {"frame_err", "frame_empty", "frame_ok"} :
          pc' = [pc EXCEPT ![Reader] = kind]
    /\ UNCHANGED <<chans, clock, closeVars, sendVars, writeVars, lastAt,
                   exitBy>>
    /\ UNCHANGED discVars

\* a reader that gives up on a frame it cannot use
AfterBadFrame_Return == "close_lock"

\* code.go:202 and 206: `continue`, the loop reads the next frame
AfterBadFrame == "read"

\* PacketDecode returns an error: a warning is logged (code.go:199-203)
ReaderDecodeErr ==
    /\ pc[Reader] = "frame_err"
    /\ pc' = [pc EXCEPT ![Reader] = AfterBadFrame]
    /\ sendWarn' = sendWarn \cup {"decode"}
    /\ UNCHANGED <<chans, clock, closeVars, nextId, panicked, writeVars,
                   lastAt, exitBy>>
    /\ UNCHANGED discVars

\* PacketDecode returns no packet (code.go:205-207)
ReaderDecodeEmpty ==
    /\ pc[Reader] = "frame_empty"
    /\ pc' = [pc EXCEPT ![Reader] = AfterBadFrame]
    /\ UNCHANGED <<chans, clock, closeVars, sendVars, writeVars, lastAt,
                   exitBy>>
    /\ UNCHANGED discVars

\* processPacket for the packets of the frame (code.go:209-211, 281-297):
\* a packet whose type has a command runs it and sets lastAt
ReaderProcess ==
    /\ pc[Reader] = "frame_ok"
    /\ pc' = [pc EXCEPT ![Reader] = "read"]
    /\ \E found \in BOOLEAN : lastAt' = IF found THEN now ELSE lastAt
    /\ UNCHANGED <<chans, clock, closeVars, sendVars, writeVars, exitBy>>
    /\ UNCHANGED discVars

----
(***************************************************************************)
(* Agent.Send (and Push, Response, which only call it), code.go:169-182.   *)
(***************************************************************************)
\* the comparison off by one
BacklogFull_Above(q) == Len(q) > WriteBacklog

\* code.go:175
BacklogFull(q) == Len(q) >= WriteBacklog

InFlight == Cardinality({s \in Senders : pc[s] \in {"send_len", "send_enq"}})

\* a caller enters Send: if a.Session.State() == Closed { Warnf; return }
SendState(s) ==
    /\ pc[s] = "idle"
    /\ nextId + InFlight <= MaxSends
    /\ IF state = "Closed"
       THEN /\ sendWarn' = sendWarn \cup {"closed"}
            /\ UNCHANGED pc
       ELSE /\ pc' = [pc EXCEPT ![s] = "send_len"]
            /\ UNCHANGED sendWarn
    /\ UNCHANGED <<chans, clock, closeVars, nextId, panicked, writeVars,
                   lastAt, exitBy>>
    /\ UNCHANGED discVars

\* if len(a.chSend) >= WriteBacklog { Warnf; return }
SendLen(s) ==
    /\ pc[s] = "send_len"
    /\ IF BacklogFull(chSend)
       THEN /\ pc' = [pc EXCEPT ![s] = "idle"]
            /\ sendWarn' = sendWarn \cup {"exceed"}
       ELSE /\ pc' = [pc EXCEPT ![s] = "send_enq"]
            /\ UNCHANGED sendWarn
    /\ UNCHANGED <<chans, clock, closeVars, nextId, panicked, writeVars,
                   lastAt, exitBy>>
    /\ UNCHANGED discVars

\* a.chSend <- pending: panics on a closed channel, waits while the buffer
\* is full.  The accepted message gets the next id.
SendEnq(s) ==
    /\ pc[s] = "send_enq"
    /\ IF chSendClosed
       THEN /\ pc' = [pc EXCEPT ![s] = "panic"]
            /\ panicked' = panicked \cup {s}
            /\ UNCHANGED <<chSend, nextId>>
       ELSE /\ Len(chSend) < WriteBacklog
            /\ chSend' = ChanPut(chSend, nextId)
            /\ nextId' = nextId + 1
            /\ pc' = [pc EXCEPT ![s] = "idle"]
            /\ UNCHANGED panicked
    /\ UNCHANGED <<chWrite, chSendClosed, chWriteClosed, clock, closeVars,
                   sendWarn, writeVars, lastAt, exitBy>>
    /\ UNCHANGED discVars

\* Agent.SendRaw, code.go:139-141: a.chWrite <- bytes panics on a closed
\* channel and waits while the buffer is full
SendRaw(x) ==
    /\ pc[x] = "idle"
    /\ IF chWriteClosed
       THEN /\ pc' = [pc EXCEPT ![x] = "panic"]
            /\ panicked' = panicked \cup {x}
            /\ UNCHANGED chWrite
       ELSE /\ Len(chWrite) < WriteBacklog
            /\ chWrite' = ChanPut(chWrite, RawBytes)
            /\ pc' = [pc EXCEPT ![x] = "done"]
            /\ UNCHANGED panicked
    /\ UNCHANGED <<chSend, chSendClosed, chWriteClosed, clock, closeVars,
                   nextId, sendWarn, writeVars, lastAt, exitBy>>
    /\ UNCHANGED discVars

----
(***************************************************************************)
(* Agent.Kick, code.go:104-124, called by a goroutine other than the       *)
(* writer.  conn.Write takes time: the caller is at "conn_write" while it  *)
(* is inside the call.                                                     *)
(***************************************************************************)
\* Marshal (an error is logged and Kick goes on) and PacketEncode (an
\* error returns); then the caller enters a.conn.Write(pkg)
KickEncode(q) ==
    /\ pc[q] = "idle"
    /\ \E ok \in BOOLEAN :
          pc' = [pc EXCEPT ![q] = IF ok THEN "conn_write" ELSE "done"]
    /\ UNCHANGED <<chans, clock, closeVars, nextId, sendWarn, panicked, pend,
                   connLog, encSkipped, lastAt, exitBy>>
    /\ UNCHANGED discVars

\* a.conn.Write(pkg) returns: the Kick packet is on the connection, or the
\* error is logged
KickWrite(q) ==
    /\ pc[q] = "conn_write"
    /\ pc' = [pc EXCEPT ![q] = "done"]
    /\ \E ok \in BOOLEAN :
          connLog' = IF ok THEN Append(connLog, RawBytes) ELSE connLog
    /\ UNCHANGED <<chans, clock, closeVars, nextId, sendWarn, panicked, pend,
                   encSkipped, lastAt, exitBy>>
    /\ UNCHANGED discVars

----
(***************************************************************************)
(* The clock and the ticker of code.go:217.                                *)
(***************************************************************************)
\* one second passes; time.NewTicker(a.Heartbeat) puts a value into
\* ticker.C every Heartbeat seconds.  The clock is read only by the
\* writer's tick case and by SetLastAt, whose value only that case reads:
\* it is followed while the ticker runs.
Elapse ==
    /\ nextTick # 0
    /\ now < MaxTime
    /\ now' = now + 1
    /\ IF now + 1 = nextTick
       THEN /\ tick' = TRUE
            /\ nextTick' = nextTick + Heartbeat
       ELSE UNCHANGED <<tick, nextTick>>
    /\ UNCHANGED <<chans, closeVars, sendVars, writeVars, lastAt, pc, exitBy>>
    /\ UNCHANGED discVars

\* the writer is in its loop
WriterInLoop == pc[Writer] \in {"select", "enq"}

\* the writer is in its loop and not waiting on a full chWrite
WriterReady ==
    \/ pc[Writer] = "select"
    \/ pc[Writer] = "enq" /\ Len(chWrite) < WriteBacklog

\* the clock of the timed specification: a second does not pass while a
\* tick waits in ticker.C and the writer is able to run
ElapseTimed ==
    /\ ~(tick /\ WriterReady)
    /\ Elapse

----
WriterStep ==
    \/ WriterTick
    \/ WriterWrite
    \/ WriterTake
    \/ WriterEnq
    \/ WriterCloseSend
    \/ WriterCloseWrite

CloseStep(p) ==
    \/ CloseEnter(p)
    \/ CloseDie(p)
    \/ CloseConn(p)

ReaderStep ==
    \/ ReaderError
    \/ ReaderSkip
    \/ ReaderPacket

SendStep(s) ==
    \/ SendState(s)
    \/ SendLen(s)
    \/ SendEnq(s)

AgentStep ==
    \/ WriterStep
    \/ \E p \in Closers : CloseStep(p)
    \/ ReaderStep
    \/ \E s \in Senders : SendStep(s)
    \/ \E x \in RawCallers : SendRaw(x)

----
(***************************************************************************)
(* The member registry.  DiscoveryDefault is not part of the sources at    *)
(* hand: AddMember, RemoveMember and GetMember follow the registry         *)
(* operations add, remove and get of the specification (section 4.B).      *)
(***************************************************************************)
\* get(nodeId): whether the registry holds a member with that id
GetMember(list, id) == id \in Range(list)

\* an add that appends without looking
AddMember_Append(list, id) == Append(list, id)

\* add(m): idempotent; insertion order is kept
AddMember(list, id) == IF GetMember(list, id) THEN list ELSE Append(list, id)

\* remove(nodeId): removing an unknown id is a no-op
RemoveMember(list, id) == SelectSeq(list, LAMBDA x : x # id)

----
(***************************************************************************)
(* DiscoveryNATS, part_001.  A node is "off" until Load runs init.  The    *)
(* bus delivers the messages of one subscription in order, one callback    *)
(* at a time; subscriptions are independent of each other.                 *)
(***************************************************************************)
\* the node has subscribed and its bus connection is open
Subscribed(n) == dpc[n] \notin {"off", "stopped"}

\* the node's addMember subscription is open: clientInit subscribes it
\* after its own member has marshalled (part_001:178-185)
AddSubscribed(c) == Subscribed(c) /\ dpc[c] # "init_failed"

\* a callback that does not compare the id with its own
IsSelf_Never(n, id) == FALSE

\* part_001:90
IsSelf(n, id) == id = n

\* a list that leaves out the requester only
ReplyList_KeepMaster(list, newMember) ==
    SelectSeq(list, LAMBDA x : x # newMember)

\* part_001:129-142: every member of the registry but the requester and
\* the master itself, in registry order
ReplyList(list, newMember) ==
    SelectSeq(list, LAMBDA x : x # newMember /\ x # Master)

\* the test of the addMember callback inverted
NotMember_Inverted(list, id) == GetMember(list, id)

\* part_001:193
NotMember(list, id) == ~GetMember(list, id)

\* a published message reaches every subscription open at that moment
Deliver(inbox, subs, msg) ==
    [n \in DOMAIN inbox |->
        IF n \in subs /\ Subscribed(n) THEN Append(inbox[n], msg) ELSE inbox[n]]

\* init on the master: subscribe unregister; serverInit adds the master
\* and subscribes register (part_001:82-96, 104-113)
MasterStart ==
    /\ dpc[Master] = "off"
    /\ dpc' = [dpc EXCEPT ![Master] = "running"]
    /\ memberList' = [memberList EXCEPT ![Master] = AddMember(@, Master)]
    /\ UNCHANGED <<attempts, regInbox, replyBox, addInbox, unregInbox, mpend,
                   hpend, ingest, retries, bcastLost, keptSelf, heardStop>>
    /\ UNCHANGED agentVars

\* the register callback up to msg.Respond (part_001:113-155): AddMember,
\* build the list, Marshal, Respond.  A failed Marshal or Respond returns.
\* The reply reaches the requester only while it waits for that request.
MasterRegister ==
    /\ dpc[Master] = "running"
    /\ regInbox # <<>>
    /\ mpend = None
    /\ LET req == Head(regInbox)
           registry == AddMember(memberList[Master], req.from)
       IN /\ memberList' = [memberList EXCEPT ![Master] = registry]
          /\ regInbox' = Tail(regInbox)
          /\ \E ok \in BOOLEAN :
                IF ok
                THEN /\ replyBox' =
                          IF dpc[req.from] = "wait" /\ attempts[req.from] = req.n
                          THEN [replyBox EXCEPT ![req.from] =
                                   <<ReplyList(registry, req.from)>>]
                          ELSE replyBox
                     /\ mpend' = req.from
                ELSE UNCHANGED <<replyBox, mpend>>
    /\ UNCHANGED <<dpc, attempts, addInbox, unregInbox, hpend, ingest,
                   retries, bcastLost, keptSelf, heardStop>>
    /\ UNCHANGED agentVars

\* the rest of the register callback: Publish(addSubject, msg.Data)
\* (part_001:157-162)
MasterPublish ==
    /\ mpend # None
    /\ mpend' = None
    /\ \E ok \in BOOLEAN :
          IF ok /\ dpc[Master] = "running"
          THEN /\ addInbox' = Deliver(addInbox, {c \in Clients : AddSubscribed(c)},
                                      mpend)
               /\ UNCHANGED bcastLost
          ELSE /\ bcastLost' = TRUE
               /\ UNCHANGED addInbox
    /\ UNCHANGED <<memberList, dpc, attempts, regInbox, replyBox, unregInbox,
                   hpend, ingest, retries, keptSelf, heardStop>>
    /\ UNCHANGED agentVars

\* the unregister callback of init (part_001:82-96), on any node
Unregister(n) ==
    /\ Subscribed(n)
    /\ unregInbox[n] # <<>>
    /\ unregInbox' = [unregInbox EXCEPT ![n] = Tail(@)]
    /\ LET id == Head(unregInbox[n])
       IN IF IsSelf(n, id)
          THEN /\ keptSelf' = keptSelf \cup {n}
               /\ UNCHANGED memberList
          ELSE /\ memberList' = [memberList EXCEPT ![n] = RemoveMember(@, id)]
               /\ UNCHANGED keptSelf
    /\ UNCHANGED <<dpc, attempts, regInbox, replyBox, addInbox, mpend, hpend,
                   ingest, retries, bcastLost, heardStop>>
    /\ UNCHANGED agentVars

\* init on a client: subscribe unregister; clientInit marshals its member
\* and subscribes addMember (part_001:82-96, 166-196)
ClientStart(c) ==
    /\ dpc[c] = "off"
    /\ dpc' = [dpc EXCEPT ![c] = "request"]
    /\ UNCHANGED <<memberList, attempts, regInbox, replyBox, addInbox,
                   unregInbox, mpend, hpend, ingest, retries, bcastLost, keptSelf, heardStop>>
    /\ UNCHANGED agentVars

\* init on a client whose own member does not marshal: the unregister
\* subscription is open, clientInit logs the error and returns without
\* subscribing addMember and without a register request (part_001:178-182)
ClientInitFail(c) ==
    /\ dpc[c] = "off"
    /\ dpc' = [dpc EXCEPT ![c] = "init_failed"]
    /\ UNCHANGED <<memberList, attempts, regInbox, replyBox, addInbox,
                   unregInbox, mpend, hpend, ingest, retries, bcastLost, keptSelf, heardStop>>
    /\ UNCHANGED agentVars

\* natsConn.Request(registerSubject, bytesData) is sent (part_001:200);
\* it reaches the master if the master has subscribed
ClientRequest(c) ==
    /\ dpc[c] = "request"
    /\ attempts' = [attempts EXCEPT ![c] = @ + 1]
    /\ dpc' = [dpc EXCEPT ![c] = "wait"]
    /\ regInbox' = IF Subscribed(Master)
                   THEN Append(regInbox, [from |-> c, n |-> attempts[c] + 1])
                   ELSE regInbox
    /\ UNCHANGED <<memberList, replyBox, addInbox, unregInbox, mpend, hpend,
                   ingest, retries, bcastLost, keptSelf, heardStop>>
    /\ UNCHANGED agentVars

\* Request returns an error (no reply in time): Sleep(ReconnectDelay()),
\* continue (part_001:201-209)
ClientTimeout(c) ==
    /\ dpc[c] = "wait"
    /\ replyBox[c] = <<>>
    /\ retries < MaxRetries
    /\ retries' = retries + 1
    /\ dpc' = [dpc EXCEPT ![c] = "request"]
    /\ UNCHANGED <<memberList, attempts, regInbox, replyBox, addInbox,
                   unregInbox, mpend, hpend, ingest, bcastLost, keptSelf, heardStop>>
    /\ UNCHANGED agentVars

\* Request returns the reply and it unmarshals (part_001:216-217)
ClientReply(c) ==
    /\ dpc[c] = "wait"
    /\ replyBox[c] # <<>>
    /\ replyBox' = [replyBox EXCEPT ![c] = <<>>]
    /\ ingest' = [ingest EXCEPT ![c] = Head(replyBox[c])]
    /\ dpc' = [dpc EXCEPT ![c] =
                 IF Head(replyBox[c]) = <<>> THEN "ready" ELSE "ingest"]
    /\ UNCHANGED <<memberList, attempts, regInbox, addInbox, unregInbox,
                   mpend, hpend, retries, bcastLost, keptSelf, heardStop>>
    /\ UNCHANGED agentVars

\* Request returns a reply that does not unmarshal: Sleep(ReconnectDelay()),
\* continue (part_001:218-222)
ClientReplyBad(c) ==
    /\ dpc[c] = "wait"
    /\ replyBox[c] # <<>>
    /\ retries < MaxRetries
    /\ retries' = retries + 1
    /\ replyBox' = [replyBox EXCEPT ![c] = <<>>]
    /\ dpc' = [dpc EXCEPT ![c] = "request"]
    /\ UNCHANGED <<memberList, attempts, regInbox, addInbox, unregInbox,
                   mpend, hpend, ingest, bcastLost, keptSelf, heardStop>>
    /\ UNCHANGED agentVars

\* for _, member := range memberList.GetList() { m.AddMember(member) },
\* one member a step; after the last one clientInit returns
\* (part_001:224-228)
ClientIngest(c) ==
    /\ dpc[c] = "ingest"
    /\ memberList' = [memberList EXCEPT ![c] = AddMember(@, Head(ingest[c]))]
    /\ ingest' = [ingest EXCEPT ![c] = Tail(@)]
    /\ dpc' = [dpc EXCEPT ![c] = IF Tail(ingest[c]) = <<>> THEN "ready" ELSE "ingest"]
    /\ UNCHANGED <<attempts, regInbox, replyBox, addInbox, unregInbox, mpend,
                   hpend, retries, bcastLost, keptSelf, heardStop>>
    /\ UNCHANGED agentVars

\* the addMember callback (part_001:185-193): Unmarshal and GetMember
ClientAddCheck(c) ==
    /\ AddSubscribed(c)
    /\ addInbox[c] # <<>>
    /\ hpend[c] = None
    /\ addInbox' = [addInbox EXCEPT ![c] = Tail(@)]
    /\ hpend' = [hpend EXCEPT ![c] =
                    IF NotMember(memberList[c], Head(addInbox[c]))
                    THEN Head(addInbox[c]) ELSE None]
    /\ UNCHANGED <<memberList, dpc, attempts, regInbox, replyBox, unregInbox,
                   mpend, ingest, retries, bcastLost, keptSelf, heardStop>>
    /\ UNCHANGED agentVars

\* the addMember callback (part_001:194): AddMember
ClientAddDo(c) ==
    /\ hpend[c] # None
    /\ memberList' = [memberList EXCEPT ![c] = AddMember(@, hpend[c])]
    /\ hpend' = [hpend EXCEPT ![c] = None]
    /\ UNCHANGED <<dpc, attempts, regInbox, replyBox, addInbox, unregInbox,
                   mpend, ingest, retries, bcastLost, keptSelf, heardStop>>
    /\ UNCHANGED agentVars

\* Stop on a client, up to the Publish (part_001:233-254): Marshal or
\* Publish fails and Stop returns, or the unregister message is published
ClientStop(c) ==
    /\ dpc[c] = "ready"
    /\ \E ok \in BOOLEAN :
          IF ok
          THEN /\ unregInbox' = Deliver(unregInbox, Nodes, c)
               /\ heardStop' = [heardStop EXCEPT
                                   ![c] = {n \in Nodes : Subscribed(n)}]
               /\ dpc' = [dpc EXCEPT ![c] = "closing"]
          ELSE /\ dpc' = [dpc EXCEPT ![c] = "stop_failed"]
               /\ UNCHANGED <<unregInbox, heardStop>>
    /\ UNCHANGED <<memberList, attempts, regInbox, replyBox, addInbox, mpend,
                   hpend, ingest, retries, bcastLost, keptSelf>>
    /\ UNCHANGED agentVars

\* m.natsConn.Close() (part_001:256): the node's subscriptions end and
\* what waits in them is dropped
ClientClose(c) ==
    /\ dpc[c] = "closing"
    /\ dpc' = [dpc EXCEPT ![c] = "stopped"]
    /\ addInbox' = [addInbox EXCEPT ![c] = <<>>]
    /\ unregInbox' = [unregInbox EXCEPT ![c] = <<>>]
    /\ replyBox' = [replyBox EXCEPT ![c] = <<>>]
    /\ UNCHANGED <<memberList, attempts, regInbox, mpend, hpend, ingest,
                   retries, bcastLost, keptSelf, heardStop>>
    /\ UNCHANGED agentVars

\* Stop on the master (part_001:232-257): isClient is false, so only
\* m.natsConn.Close(): the master's subscriptions end and what waits in
\* them is dropped
MasterStop ==
    /\ dpc[Master] = "running"
    /\ dpc' = [dpc EXCEPT ![Master] = "stopped"]
    /\ regInbox' = <<>>
    /\ unregInbox' = [unregInbox EXCEPT ![Master] = <<>>]
    /\ UNCHANGED <<memberList, attempts, replyBox, addInbox, mpend, hpend,
                   ingest, retries, bcastLost, keptSelf, heardStop>>
    /\ UNCHANGED agentVars

\* another participant of the bus publishes an id on the unregister
\* subject, which takes messages from any sender
ForeignUnregister(id) ==
    /\ \A n \in Nodes : id \notin Range(unregInbox[n])
    /\ \E n \in Nodes : Subscribed(n)
    /\ unregInbox' = Deliver(unregInbox, Nodes, id)
    /\ UNCHANGED <<memberList, dpc, attempts, regInbox, replyBox, addInbox,
                   mpend, hpend, ingest, retries, bcastLost, keptSelf, heardStop>>
    /\ UNCHANGED agentVars

DiscInit ==
    /\ memberList = [n \in Nodes |-> <<>>]
    /\ dpc = [n \in Nodes |-> "off"]
    /\ attempts = [c \in Clients |-> 0]
    /\ regInbox = <<>>
    /\ replyBox = [c \in Clients |-> <<>>]
    /\ addInbox = [c \in Clients |-> <<>>]
    /\ unregInbox = [n \in Nodes |-> <<>>]
    /\ mpend = None
    /\ hpend = [c \in Clients |-> None]
    /\ ingest = [c \in Clients |-> <<>>]
    /\ retries = 0
    /\ bcastLost = FALSE
    /\ keptSelf = {}
    /\ heardStop = [c \in Clients |-> {}]

MasterStep ==
    \/ MasterStart
    \/ MasterRegister
    \/ MasterPublish

\* a client whose register requests all succeed
ClientStep(c) ==
    \/ ClientStart(c)
    \/ ClientRequest(c)
    \/ ClientReply(c)
    \/ ClientIngest(c)
    \/ ClientAddCheck(c)
    \/ ClientAddDo(c)

\* a failed register attempt
ClientRetry(c) ==
    \/ ClientTimeout(c)
    \/ ClientReplyBad(c)

StopStep(c) ==
    \/ ClientStop(c)
    \/ ClientClose(c)

\* the cluster on a bus that carries its own messages only
DiscNext ==
    \/ MasterStep
    \/ \E c \in Clients : ClientStep(c)
    \/ \E c \in Clients : ClientRetry(c)
    \/ \E n \in Nodes : Unregister(n)
    \/ \E c \in Clients : StopStep(c)

\* the cluster, every register request answered, on a bus where another
\* participant publishes the master's id on the unregister subject
DiscNextOpen ==
    \/ MasterStep
    \/ \E c \in Clients : ClientStep(c)
    \/ \E n \in Nodes : Unregister(n)
    \/ \E c \in Clients : StopStep(c)
    \/ ForeignUnregister(Master)

\* the cluster, every register request answered, with Stop on the master
\* as well as on the clients
DiscNextStop ==
    \/ MasterStep
    \/ \E c \in Clients : ClientStep(c)
    \/ \E n \in Nodes : Unregister(n)
    \/ \E c \in Clients : StopStep(c)
    \/ MasterStop

\* the cluster while it registers: no node stops, and the serializer may
\* fail on a client's own member
DiscNextRegister ==
    \/ MasterStep
    \/ \E c \in Clients : ClientStep(c)
    \/ \E c \in Clients : ClientRetry(c)
    \/ \E c \in Clients : ClientInitFail(c)

----
(***************************************************************************)
(* The specifications: one connection's agent, and one cluster.            *)
(***************************************************************************)
\* a connection and a cluster before anything has run
Init == AgentInit /\ DiscInit

AgentNext ==
    \/ AgentStep
    \/ Elapse

\* the agent with a caller of Kick
AgentNextKick ==
    \/ AgentStep
    \/ Elapse
    \/ KickEncode(Kicker)
    \/ KickWrite(Kicker)

\* the agent with the reader followed frame by frame, and no SendRaw
AgentNextFrames ==
    \/ WriterStep
    \/ \E p \in Closers : CloseStep(p)
    \/ \E s \in Senders : SendStep(s)
    \/ Elapse
    \/ ReaderError
    \/ ReaderFrame
    \/ ReaderDecodeErr
    \/ ReaderDecodeEmpty
    \/ ReaderProcess

AgentNextTimed ==
    \/ AgentStep
    \/ ElapseTimed

SpecAgent ==
    Init /\ [][AgentNext]_vars

SpecAgentKick ==
    Init /\ [][AgentNextKick]_vars

SpecAgentFrames ==
    Init /\ [][AgentNextFrames]_vars

SpecAgentTimed ==
    Init /\ [][AgentNextTimed]_vars

SpecDiscovery ==
    Init /\ [][DiscNext]_vars

SpecDiscoveryOpen ==
    Init /\ [][DiscNextOpen]_vars

SpecDiscoveryStop ==
    Init /\ [][DiscNextStop]_vars

SpecRegister ==
    Init /\ [][DiscNextRegister]_vars

\* every goroutine that can run does run; the environment (the peer, the
\* callers of Send, SendRaw and Close, the clock) is not obliged to act
FairSpecAgent ==
    /\ SpecAgent
    /\ WF_vars(WriterStep)
    /\ \A p \in Closers : WF_vars(CloseStep(p))
    /\ \A s \in Senders : WF_vars(SendLen(s) \/ SendEnq(s))

----
(***************************************************************************)
(* Properties of the session agent.                                        *)
(***************************************************************************)
\* C1: session send order.  Messages get their ids in the order Send puts
\* them into chSend.  Whenever the bytes of message m2 are in the
\* connection's write log, every message m1 accepted before m2 was either
\* written earlier in the log or skipped by an encode error; so the
\* writer never writes m2's bytes before m1's.
C1_SendOrder ==
    \A j \in 1..Len(connLog) :
        connLog[j] > 0 =>
            \A m1 \in 1..(connLog[j] - 1) :
                \/ m1 \in encSkipped
                \/ \E i \in 1..(j - 1) : connLog[i] = m1

\* two accepted messages were both written
C1_Witness ==
    \E i, j \in 1..Len(connLog) : i < j /\ connLog[i] = 1 /\ connLog[j] = 2

\* C2: heartbeat timeout closes the session.  Once the writer has detected
\* the timeout of a client that sent a packet and then stayed silent for
\* more than Heartbeat seconds, eventually the session is Closed,
\* conn.Close has been called and the Close call made by the writer has
\* returned.
C2_TimeoutCloses ==
    (exitBy = "timeout" /\ state = "Init" /\ lastAt > 0
        /\ HeartbeatExpired(lastAt, now))
        ~> (/\ state = "Closed"
            /\ connCloses > 0
            /\ pc[Writer] \in {"close_chSend", "close_chWrite", "done"})

\* C3: Send never blocks its caller.  No caller of Send is at the channel
\* send a.chSend <- pending while chSend holds WriteBacklog messages.
C3_SendNeverBlocks ==
    \A s \in Senders : pc[s] = "send_enq" => Len(chSend) < WriteBacklog

\* C4: backlog drop.  A Send that reaches the length test while chSend
\* holds WriteBacklog messages returns without enqueuing: the queue and
\* its order are what they were.
C4_BacklogDrop ==
    [][\A s \in Senders :
          (pc[s] = "send_len" /\ Len(chSend) >= WriteBacklog /\ pc'[s] # pc[s])
              => (pc'[s] = "idle" /\ chSend' = chSend /\ nextId' = nextId)]_vars

\* a Send was dropped on a full queue, which still holds its messages
C4_Witness ==
    /\ "exceed" \in sendWarn
    /\ Len(chSend) = WriteBacklog

\* C5: Close is idempotent.  Over any number of Close calls by the reader,
\* the writer and an outside caller, the on-close hooks run at most once,
\* the death signal is sent at most once and conn.Close is called at most
\* once; a Close call that finds the state Closed changes nothing.
C5_CloseOnce ==
    /\ [](onCloseRuns <= 1 /\ dieSent <= 1 /\ connCloses <= 1)
    /\ [][\A p \in Closers :
            (pc[p] = "close_lock" /\ state = "Closed" /\ pc'[p] # pc[p])
                => UNCHANGED <<chans, clock, closeVars, sendVars, writeVars,
                               lastAt, exitBy>>]_vars

\* the three Close calls have all returned
C5_Witness ==
    /\ \A p \in {Reader, Outsider} : pc[p] = "done"
    /\ pc[Writer] \in {"close_chSend", "close_chWrite", "done"}
    /\ onCloseRuns = 1

\* the moment from which lastAt < now - Heartbeat holds
StaleAt ==
    IF lastAt + Heartbeat + 1 > StartTime THEN lastAt + Heartbeat + 1
    ELSE StartTime

\* C6: heartbeat detection bound.  The writer is out of its loop within
\* one tick period of the moment no packet has been processed for more
\* than Heartbeat seconds.
C6_DetectionBound ==
    WriterInLoop => now <= StaleAt + Heartbeat

\* the same bound for a writer that is not waiting on a full chWrite
C6_BoundWhenReady ==
    WriterReady => now <= StaleAt + Heartbeat

----
(***************************************************************************)
(* Properties of the discovery protocol.                                   *)
(***************************************************************************)
Members(n) == Range(memberList[n])

\* no message is in flight and no callback is under way
Quiescent ==
    /\ regInbox = <<>>
    /\ mpend = None
    /\ \A c \in Clients :
          replyBox[c] = <<>> /\ addInbox[c] = <<>> /\ hpend[c] = None
    /\ \A n \in Nodes : unregInbox[n] = <<>>

\* the master and every client run, every client has registered, no node
\* has called Stop, every addMember broadcast was published and delivered
AllRegistered ==
    /\ dpc[Master] = "running"
    /\ \A c \in Clients : dpc[c] = "ready"
    /\ ~bcastLost
    /\ Quiescent

\* C7 as stated: discovery convergence.  After the last register has
\* succeeded and the broadcasts are delivered, the registry of every node
\* holds the same N+1 members: the master and all the clients.
C7_Convergence ==
    AllRegistered => \A n \in Nodes : Members(n) = Nodes

\* C7: discovery convergence, amended.  After the last register has
\* succeeded and the broadcasts are delivered, the master's registry holds
\* the master and all the clients, and every client's registry holds the
\* same set, all the clients, which does not include the master.
C7_ConvergenceClients ==
    AllRegistered =>
        /\ Members(Master) = Nodes
        /\ \A c \in Clients : Members(c) = Clients

\* both clients have registered after a failed attempt
C7_Witness ==
    AllRegistered /\ retries > 0

\* C8: unregister propagation.  After client g has stopped and its
\* unregister message has been published, once every message in flight is
\* delivered the registry of no other node the message reached holds g.
C8_UnregisterPropagates ==
    \A g \in Clients :
        (dpc[g] = "stopped" /\ Quiescent) =>
            \A n \in heardStop[g] \ {g} : g \notin Members(n)

\* C9: register reply content.  The member list of every reply the master
\* sends holds neither the requester nor the master, and holds every other
\* member the master's registry has when the reply is sent.
C9_ReplyContent ==
    [][\A c \in Clients :
          (replyBox'[c] # replyBox[c] /\ replyBox'[c] # <<>>) =>
              LET list == Range(Head(replyBox'[c]))
              IN /\ c \notin list
                 /\ Master \notin list
                 /\ (Range(memberList'[Master]) \ {c, Master}) \subseteq list]_vars

\* a reply that lists another client waits for its requester
C9_Witness ==
    \E c \in Clients : replyBox[c] # <<>> /\ Head(replyBox[c]) # <<>>

\* C10: a node never removes itself.  An unregister message that carries
\* the receiving node's own id leaves its registry unchanged; a registry
\* that holds its node's own id holds it in every later state; the
\* master's registry holds the master from startup on.
C10_NeverRemovesSelf ==
    /\ [](dpc[Master] # "off" => Master \in Members(Master))
    /\ [][\A n \in Nodes : n \in Members(n) => n \in Range(memberList'[n])]_vars
    /\ [][\A n \in Nodes :
            (/\ unregInbox[n] # <<>>
             /\ Head(unregInbox[n]) = n
             /\ unregInbox'[n] = Tail(unregInbox[n]))
                => memberList'[n] = memberList[n]]_vars

\* the master and a client have each received their own id on unregister
\* and hold themselves and another member
C10_Witness ==
    /\ Master \in keptSelf
    /\ \E c \in Clients : c \in keptSelf /\ c \in Members(c) /\ Len(memberList[c]) > 1
    /\ Master \in Members(Master) /\ Len(memberList[Master]) > 1

\* clientInit has returned on client c
ClientInitReturned(c) == dpc[c] \in {"ready", "init_failed"}

\* C11: client registration retries indefinitely.  Every failed register
\* attempt is followed by another one, and clientInit returns only after a
\* reply was received, so after the master has added the client, and after
\* every member of the returned list was added to the registry.
C11_ReturnsRegistered ==
    \A c \in Clients :
        /\ ClientInitReturned(c) =>
              /\ attempts[c] > 0
              /\ c \in Members(Master)
              /\ ingest[c] = <<>>
        /\ (attempts[c] > 0 /\ ~ClientInitReturned(c)) =>
              dpc[c] \in {"request", "wait", "ingest"}

\* the part of C11 the register loop decides: a client whose loop has
\* ended has been added by the master and has ingested the whole reply,
\* and a client that has made an attempt is still in the loop otherwise
C11_LoopEndsRegistered ==
    \A c \in Clients :
        /\ dpc[c] = "ready" =>
              /\ attempts[c] > 0
              /\ c \in Members(Master)
              /\ ingest[c] = <<>>
        /\ (attempts[c] > 0 /\ dpc[c] # "ready") =>
              dpc[c] \in {"request", "wait", "ingest"}

\* Stop has returned on node n
StopReturned(n) == dpc[n] \in {"stopped", "stop_failed"}

\* C12: shutdown closes the bus client.  When Stop has returned on a node,
\* master or client, its bus connection is closed, whatever the outcome of
\* a client's marshal and publish of the unregister message; a client
\* whose connection is closed has published the unregister with its id.
C12_StopClosesBus ==
    \A n \in Nodes :
        /\ StopReturned(n) => ~Subscribed(n)
        /\ (n \in Clients /\ dpc[n] = "stopped") => n \in heardStop[n]

\* C13: read error closes the session.  Once the reader's connection read
\* has returned an error, whatever the writer is doing at that moment, the
\* reader's Close eventually returns with the session Closed, the on-close
\* hooks run and the connection closed, and the writer terminates.
C13_ReadErrorCloses ==
    (pc[Reader] = "close_lock")
        ~> (/\ pc[Reader] = "done"
            /\ state = "Closed"
            /\ onCloseRuns = 1
            /\ connCloses = 1
            /\ pc[Writer] = "done")

\* a Close call is at a.chDie <- true
DeathSignalled == \E p \in Closers : pc[p] = "close_die"

\* C14: writer priority.  With the writer at its select, no step receives
\* from chWrite or chSend while a death signal or a tick is ready, and no
\* step receives from chSend while chWrite holds bytes: the sources are
\* handled in the order death signal, tick, raw-write queue, send queue.
C14_WriterPriority ==
    [][pc[Writer] = "select" =>
          /\ (DeathSignalled \/ tick) =>
                (Len(chWrite') >= Len(chWrite) /\ Len(chSend') >= Len(chSend))
          /\ chWrite # <<>> => Len(chSend') >= Len(chSend)]_vars

\* goroutine p is inside a.conn.Write
ConnWriting(p) == pc[p] = "conn_write"

\* C15: only the writer writes to the connection.  In every reachable
\* state a goroutine that is inside a write to the session's connection is
\* that session's writer, for every operation of the agent, Kick included.
C15_OnlyWriterWrites ==
    \A p \in Procs : ConnWriting(p) => p = Writer

\* the writer is past the a.Close() of its deferred function
WriterClosing == pc[Writer] \in {"close_chSend", "close_chWrite", "done"}

\* C16: queue closing.  chSend and chWrite are closed only by the writer,
\* each once, and only after the writer has received the death signal, so
\* with the session Closed; a writer that left its loop for another reason
\* never gets to close them.
C16_QueueClosing ==
    /\ []((chSendClosed \/ chWriteClosed \/ WriterClosing) =>
            (exitBy = "die" /\ dieSent = 1 /\ state = "Closed"))
    /\ [][/\ chSendClosed' # chSendClosed =>
               (/\ ~chSendClosed
                /\ pc[Writer] = "close_chSend"
                /\ pc'[Writer] = "close_chWrite")
          /\ chWriteClosed' # chWriteClosed =>
               (/\ ~chWriteClosed
                /\ pc[Writer] = "close_chWrite"
                /\ pc'[Writer] = "done")]_vars

\* the writer has received the death signal and closed both queues
C16_Witness ==
    chSendClosed /\ chWriteClosed /\ pc[Writer] = "done" /\ exitBy = "die"

\* the reader holds a frame that does not decode or decodes to no packet
BadFrame == pc[Reader] \in {"frame_err", "frame_empty"}

\* C17: malformed frames are skipped.  The reader's step on a frame that
\* does not decode, or decodes to no packet, leaves the session state,
\* lastAt and both queues unchanged, calls neither a command nor Close and
\* goes back to reading; the reader ends only from its connection read.
C17_BadFrameSkipped ==
    [][/\ (BadFrame /\ pc'[Reader] # pc[Reader]) =>
            /\ pc'[Reader] = "read"
            /\ UNCHANGED <<state, lastAt, chSend, chWrite, chSendClosed,
                           chWriteClosed, connCloses, onCloseRuns, connLog>>
       /\ (pc'[Reader] = "close_lock" /\ pc[Reader] # "close_lock") =>
            pc[Reader] = "read"]_vars

\* the reader has skipped a frame that did not decode and reads again,
\* with the session open and a message waiting in the send queue
C17_Witness ==
    /\ "decode" \in sendWarn
    /\ pc[Reader] = "read"
    /\ state = "Init"
    /\ chSend # <<>>

\* no id occurs twice in the list
NoDuplicates(list) ==
    \A i, j \in 1..Len(list) : list[i] = list[j] => i = j

\* C18: no duplicate members on a client.  However the addMember callback
\* (GetMember, then AddMember) interleaves with the ingestion of the
\* register reply and with repeated register attempts, the registry of a
\* client never holds two entries with the same node id.
C18_NoDuplicateMembers ==
    \A c \in Clients : NoDuplicates(memberList[c])

\* a client's addMember callback has found a member missing and is about
\* to add it, and the reply's ingestion has added that member meanwhile
C18_Witness ==
    \E c \in Clients :
        /\ hpend[c] # None
        /\ hpend[c] \in Members(c)
        /\ retries > 0

\* C19: no send on a closed queue.  However Send and SendRaw calls
\* interleave with Close and with the writer's shutdown, no caller performs
\* a channel send on chSend or chWrite after the writer has closed it.
C19_NoSendOnClosed ==
    panicked = {}

\* C20: the writer never blocks on its own raw-write queue.  In no
\* reachable state is the writer waiting at a.chWrite <- p while chWrite
\* holds WriteBacklog byte slices.
C20_WriterNeverBlocked ==
    ~(pc[Writer] = "enq" /\ Len(chWrite) >= WriteBacklog)

====
